---- MODULE Spec2Model ----
(***************************************************************************)
(* The task execution orchestrator of the QA automation LTI tool: the two  *)
(* HTTP operations POST /execute (analyze) and POST /execute-approved      *)
(* (executeApproved), the worker process each one spawns, the timeout      *)
(* timer of analyzeTask and the staged approved-actions artifact of        *)
(* executeApprovedActions.                                                 *)
(*                                                                         *)
(* The repository holds two revisions of the server:                       *)
(*   "P2"  src/qa-automation-lti.js   (the file the Dockerfile starts)     *)
(*   "V3"  src/unnamed/part_001       ("Definitive V3")                    *)
(* The variable rev says which one is running; it never changes.           *)
(***************************************************************************)
EXTENDS Integers, Sequences, FiniteSets, TLC

\* ------------------------------------------------------------- bounds
\* how many times the clock advances
MaxTicks == 2
\* how many tokens a worker writes to stdout
MaxLen == 5

\* ------------------------------------------------- program constants
\* const timeoutMs = 300000 (analyzeTask)
timeoutMs == 300000

\* ------------------------------------------------------ input domains
Revisions == {"P2", "V3"}
\* with the oldest server, the third file in src/unnamed/part_001 (from line
\* 1755), whose POST /execute runs executeQATask
AllRevisions == Revisions \cup {"V1"}
\* a field the request body does not carry (undefined), or carries empty
Missing == "missing"
TaskIds == {Missing, "find-duplicate-pages", "no-such-task"}
CourseIds == {Missing, "c1"}
\* req.body.approvedActions: undefined, an array, or a value that is no array
Undefined == [kind |-> "undefined", items |-> <<>>]
NotArray == [kind |-> "other", items |-> <<>>]
Arr(s) == [kind |-> "array", items |-> s]
ActionValues == {Undefined, NotArray, Arr(<<>>), Arr(<<"a1">>)}

\* The server serves any number of requests, one after the other or
\* overlapping. The model follows two at a time: a request takes a slot, and
\* the slot is taken again once its call has returned and its worker is gone.
Calls == {1, 2}
MaxNow == MaxTicks * timeoutMs

VARIABLES rev, apiToken, scriptExists, now, calls, files, crashed

\* The stdout of one worker that exits with code 0, seen token by token:
\* text is all the worker writes, chunk the last 'data' event, output the
\* buffer of the handler, result what the 'close' handler extracted.
VARIABLES text, chunk, output, result

stdio == <<text, chunk, output, result>>

\* What one 'close' handler answers: handler is the function whose handler
\* runs, stdout what the worker wrote to stdout (its kind and its length in
\* characters), error the stderr buffer, response the settled promise.
VARIABLES handler, stdout, error, response

closing == <<handler, stdout, error, response>>

\* One staged batch: approvedActions is what the caller passed, loaded what
\* the worker has read back from the artifact.
VARIABLES approvedActions, loaded

staging == <<approvedActions, loaded>>

\* registry: the QA_TASKS object of the running server.
\* proposed: history of the actions successful analyses have proposed so far
\* (the server keeps no such record).
VARIABLES registry, proposed

\* the dashboard page in the browser: its two script variables, what the page
\* shows (overlays, result panel, check boxes), the fetch in flight and the
\* POST /execute-approved it has sent and awaits the response of
VARIABLES currentTaskId, currentAnalysisResult, dom, sent

browsing == <<currentTaskId, currentAnalysisResult, dom, sent>>

\* the variables each call of analyzeTask declares inside its promise
\* (output, error, timeout) and the worker process each call spawned
VARIABLES closures, workers

isolating == <<closures, workers>>

vars == <<rev, apiToken, scriptExists, now, calls, files, crashed,
          text, chunk, output, result, handler, stdout, error, response,
          approvedActions, loaded, registry, proposed,
          currentTaskId, currentAnalysisResult, dom, sent, closures, workers>>

\* ---------------------------------------------------------- registry
\* QA_TASKS: the task ids the running revision dispatches on
QA_TASKS ==
  IF rev \in {"P2", "V1"} THEN {"find-duplicate-pages"}
  ELSE {"find-duplicate-pages", "validate-assignment-settings",
        "title-alignment-checker", "assessment-date-updater",
        "table-caption-checker", "remove-empty-groups-modules",
        "rubric-cleanup", "syllabus-acuo-attribution-remover"}

\* ----------------------------------------------------- the artifact
NoFile == [course |-> "", ts |-> -1]
\* path.join(__dirname, 'temp', `approved_actions_${courseId}_${Date.now()}.json`)
\* (a missing courseId is interpolated as the text "undefined")
actionsFile(courseId, t) ==
  [course |-> IF courseId = Missing THEN "undefined" ELSE courseId, ts |-> t]

\* JSON.stringify(approvedActions, null, 2) as a sequence of tokens
RECURSIVE StringifyItems(_)
StringifyItems(s) ==
  IF s = <<>> THEN <<>>
  ELSE IF Len(s) = 1 THEN <<s[1]>>
  ELSE <<s[1], ",">> \o StringifyItems(Tail(s))
StringifyFirstOnly(v) ==
  IF v.kind = "array"
  THEN <<"[">> \o StringifyItems(IF v.items = <<>> THEN <<>> ELSE <<v.items[1]>>)
             \o <<"]">>
  ELSE <<"{}">>
Stringify(v) ==
  IF v.kind = "array" THEN <<"[">> \o StringifyItems(v.items) \o <<"]">>
  ELSE <<"{}">>

\* ------------------------------------------------- result extraction
\* the pieces of text a worker's stdout is made of
Sentinel == "ENHANCED_ANALYSIS_JSON:"
LegacySentinel == "JSON_OUTPUT:"
Member == "\"a\":1"
Keyword == "Found"
Newline == "\n"
Tokens == {Sentinel, LegacySentinel, "{", "}", Member, Keyword, Newline}
Texts == UNION {[1..n -> Tokens] : n \in 0..MaxLen}

NotParsed == [via |-> "unparsed", doc |-> <<>>]

\* the text without its white space
RECURSIVE Strip(_)
Strip(s) ==
  IF s = <<>> THEN <<>>
  ELSE IF Head(s) = Newline THEN Strip(Tail(s))
  ELSE <<Head(s)>> \o Strip(Tail(s))

\* JSON.parse(s) returns (of these tokens, only {} and {"a":1} are JSON)
JsonValid(s) == Strip(s) \in {<<"{", "}">>, <<"{", Member, "}">>}

Positions(s, tok) == {i \in 1..Len(s) : s[i] = tok}
Min(S) == CHOOSE x \in S : \A y \in S : x <= y
Max(S) == CHOOSE x \in S : \A y \in S : x >= y
\* \s* : the first position from p on that holds no white space (0: none)
SkipSpace(s, p) ==
  LET P == {i \in p..Len(s) : s[i] # Newline} IN IF P = {} THEN 0 ELSE Min(P)
\* (.+) : from q to the end of the line
RestOfLine(s, q) ==
  LET E == {i \in q..Len(s) : s[i] = Newline}
  IN SubSeq(s, q, IF E = {} THEN Len(s) ELSE Min(E) - 1)

NoMatch == [found |-> FALSE, cap |-> <<>>]
Match(c) == [found |-> TRUE, cap |-> c]

\* s.match(/<sentinel>\s*(.+)/)
MatchLine(s, sentinel) ==
  LET P == {p \in Positions(s, sentinel) : SkipSpace(s, p + 1) # 0}
  IN IF P = {} THEN NoMatch
     ELSE Match(RestOfLine(s, SkipSpace(s, Min(P) + 1)))

\* s.match(/\{[\s\S]*\}/) : from the first { to the last }
MatchBraces(s) ==
  LET O == Positions(s, "{")
      C == Positions(s, "}")
  IN IF O = {} \/ C = {} \/ Max(C) < Min(O) THEN NoMatch
     ELSE Match(SubSeq(s, Min(O), Max(C)))

\* s.match(/ENHANCED_ANALYSIS_JSON:\s*(\{[\s\S]*\})/)
MatchSentinelBraces(s) ==
  LET C == Positions(s, "}")
      P == {p \in Positions(s, Sentinel) :
              /\ SkipSpace(s, p + 1) # 0
              /\ s[SkipSpace(s, p + 1)] = "{"
              /\ C # {} /\ Max(C) > SkipSpace(s, p + 1)}
  IN IF P = {} THEN NoMatch
     ELSE Match(SubSeq(s, SkipSpace(s, Min(P) + 1), Max(C)))

Extracted(how, s) == [via |-> how, doc |-> Strip(s)]

\* the code === 0 branch of the 'close' handler of analyzeTask
ExtractP2BracesFirst(s) ==
  LET m1 == MatchLine(s, Sentinel)
      m2 == MatchLine(s, LegacySentinel)
      m3 == MatchBraces(s)
  IN IF m3.found /\ JsonValid(m3.cap) THEN Extracted("extracted", m3.cap)
     ELSE IF m1.found /\ JsonValid(m1.cap) THEN Extracted("primary", m1.cap)
     ELSE IF m2.found /\ JsonValid(m2.cap) THEN Extracted("legacy", m2.cap)
     ELSE IF Positions(s, Keyword) # {} THEN [via |-> "keywords", doc |-> <<>>]
     ELSE [via |-> "none", doc |-> <<>>]
ExtractP2(s) ==
  LET m1 == MatchLine(s, Sentinel)
      m2 == MatchLine(s, LegacySentinel)
      m3 == MatchBraces(s)
  IN IF m1.found /\ JsonValid(m1.cap) THEN Extracted("primary", m1.cap)
     ELSE IF m2.found /\ JsonValid(m2.cap) THEN Extracted("legacy", m2.cap)
     ELSE IF m3.found /\ JsonValid(m3.cap) THEN Extracted("extracted", m3.cap)
     ELSE IF Positions(s, Keyword) # {} THEN [via |-> "keywords", doc |-> <<>>]
     ELSE [via |-> "none", doc |-> <<>>]

ExtractV3(s) ==
  LET m == MatchSentinelBraces(s)
  IN IF ~m.found THEN [via |-> "none", doc |-> <<>>]
     ELSE IF JsonValid(m.cap) THEN Extracted("primary", m.cap)
     ELSE [via |-> "failed", doc |-> <<>>]

Extract(s) == IF rev = "P2" THEN ExtractP2(s) ELSE ExtractV3(s)

\* ------------------------------------------------------------- calls
Idle ==
  [kind |-> "idle", taskId |-> Missing, courseId |-> Missing,
   actions |-> Undefined, outcome |-> "none", timer |-> "none",
   proc |-> "none", spawns |-> 0, artifact |-> NoFile, startedAt |-> -1,
   exitCode |-> "none", parsed |-> "none", mode |-> "none"]

\* a promise that has not settled yet
NotSettled ==
  [code |-> "none", outcome |-> "pending", class |-> "none", raw |-> 0,
   detail |-> 0, flag |-> FALSE]
NoStdout == [kind |-> "nomatch", len |-> 0]
NotLoaded == [kind |-> "unread", items |-> <<>>]

\* the variables of the machines that are not running
NoStdio == text = <<>> /\ chunk = <<>> /\ output = <<>> /\ result = NotParsed
NoClosing ==
  /\ handler = "analyze" /\ stdout = NoStdout
  /\ error = <<>> /\ response = NotSettled
NoStaging == approvedActions = Undefined /\ loaded = NotLoaded

\* JavaScript null
Null == "null"
NoRequest == [taskId |-> Null, from |-> Null, batch |-> <<>>,
              safeChecked |-> {}, manualChecked |-> {}]
NoPage == [preview |-> FALSE, progress |-> FALSE, fetching |-> Null,
           results |-> "hidden", safeChecks |-> {}, manualChecks |-> {}]
NoNextSteps ==
  [kind |-> "undefined", safe_actions_count |-> 0, manual_review_count |-> 0,
   can_proceed_with_safe_actions |-> FALSE]
\* currentAnalysisResult = null; the field task of a result is the task whose
\* analysis produced it (the page keeps no such field)
NoResult ==
  [task |-> Null, via |-> "null", safe_actions |-> Undefined,
   requires_manual_review |-> Undefined, next_steps |-> NoNextSteps]
NoBrowsing ==
  /\ currentTaskId = Null /\ currentAnalysisResult = NoResult
  /\ dom = NoPage /\ sent = NoRequest

NoClosure == [kind |-> "idle", output |-> <<>>, error |-> <<>>,
              timeout |-> "none", outcome |-> NotSettled]
NoWorker == [state |-> "none", wrote |-> <<>>, werr |-> <<>>, code |-> "none"]
NoIsolating ==
  /\ closures = [i \in Calls |-> NoClosure]
  /\ workers = [i \in Calls |-> NoWorker]

\* the server after startup, running one of the revisions in revs
InitOf(revs) ==
  /\ rev \in revs
  /\ apiToken \in BOOLEAN
  /\ scriptExists \in BOOLEAN
  /\ now = 0
  /\ calls = [i \in Calls |-> Idle]
  /\ files = {}
  /\ crashed = FALSE
  /\ registry = QA_TASKS
  /\ proposed = {}
  /\ NoBrowsing /\ NoIsolating
  /\ NoStdio /\ NoClosing /\ NoStaging

Init == InitOf(Revisions)

\* ------------------------------------------------------- validation
\* POST /execute: the checks before analyzeTask is called
AnalyzeRoute(t, c) ==
  IF rev = "V1" THEN "ok"
  ELSE IF rev = "P2"
  THEN IF t = Missing THEN "MissingTaskId"
       ELSE IF c = Missing THEN "MissingCourseId"
       ELSE "ok"
  ELSE IF t = Missing \/ c = Missing THEN "MissingParams" ELSE "ok"

\* the task ids a revision dispatches on: the case labels of the switch in
\* P2 and in executeQATask, the entries of QA_TASKS that have a script in V3
SwitchCases == {"find-duplicate-pages"}
DispatchesAny(t) == TRUE
Dispatches(t) == IF rev = "V3" THEN t \in registry ELSE t \in SwitchCases

\* analyzeTask: the checks before the timer is armed and the worker spawned
\* (executeQATask in V1: it never looks for the script)
analyzeTaskGateNoLookup(t) ==
  IF ~apiToken THEN "MissingCredential"
  ELSE IF ~scriptExists THEN "ScriptNotFound"
  ELSE "ok"
analyzeTaskGateNoExists(t) ==
  IF ~Dispatches(t) THEN "UnknownTask"
  ELSE IF ~apiToken THEN "MissingCredential"
  ELSE "ok"
analyzeTaskGate(t) ==
  IF ~Dispatches(t) THEN "UnknownTask"
  ELSE IF ~apiToken THEN "MissingCredential"
  ELSE IF rev # "V1" /\ ~scriptExists THEN "ScriptNotFound"
  ELSE "ok"

AnalyzeVerdict(t, c) ==
  IF AnalyzeRoute(t, c) # "ok" THEN AnalyzeRoute(t, c) ELSE analyzeTaskGate(t)

\* POST /execute-approved: the checks before executeApprovedActions is called
\* (none in P2; in V3 approvedActions.length is read first, inside the try)
ExecuteRoute(t, c, a) ==
  IF rev = "V1" THEN "NoRoute"
  ELSE IF rev = "P2" THEN "ok"
  ELSE IF a.kind = "undefined" THEN "TypeError"
  ELSE IF t = Missing \/ c = Missing \/ a.kind # "array" THEN "MissingParams"
  ELSE IF Len(a.items) = 0 THEN "EmptySuccess"
  ELSE "ok"

\* executeApprovedActions: the checks before the artifact is written
\* (P2: fs.writeFileSync(file, undefined) throws before it opens the file)
executeGateNoLookup(t, a) ==
  IF ~apiToken THEN "MissingCredential"
  ELSE IF rev = "P2" /\ a.kind = "undefined" THEN "BadActions"
  ELSE "ok"
executeGateExclusive(t, a) ==
  IF \E k \in Calls : /\ calls[k].kind = "execute" /\ calls[k].taskId = t
                       /\ calls[k].proc = "live"
  THEN "Busy"
  ELSE IF ~Dispatches(t) THEN "UnknownTask"
  ELSE executeGateNoLookup(t, a)
executeGate(t, a) ==
  IF ~Dispatches(t) THEN "UnknownTask"
  ELSE IF ~apiToken THEN "MissingCredential"
  ELSE IF rev = "P2" /\ a.kind = "undefined" THEN "BadActions"
  ELSE "ok"

ExecuteVerdict(t, c, a) ==
  IF ExecuteRoute(t, c, a) # "ok" THEN ExecuteRoute(t, c, a) ELSE executeGate(t, a)

\* ------------------------------------------------------ call steps
\* a promise settles once: a later resolve or reject changes nothing
SettleLast(call, o) == [call EXCEPT !.outcome = o]
Settle(call, o) ==
  IF call.outcome = "pending" THEN [call EXCEPT !.outcome = o] ELSE call

\* the request as received, before any check
Received(k, t, c, a) ==
  [Idle EXCEPT !.kind = k, !.taskId = t, !.courseId = c, !.actions = a,
               !.outcome = "pending"]

\* setTimeout(..., timeoutMs)
ArmTimer(call) == [call EXCEPT !.timer = "pending"]

\* clearTimeout(timeout)
KeepTimer(call) == call
ClearTimeout(call) ==
  [call EXCEPT !.timer = IF @ = "pending" THEN "cleared" ELSE @]

\* spawn('python3', args): the child object is returned at once; when the
\* interpreter cannot be started its 'error' event is queued for the next tick
\* the mode the args put the worker in: '--analyze-only', or
\* '--execute-approved' / '--execute-from-json' with the artifact, or, in
\* executeQATask, '--auto-delete', 'true'
WorkerMode(k) ==
  IF k = "execute" THEN "execute"
  ELSE IF rev = "V1" THEN "auto-delete"
  ELSE "analyze-only"
SpawnWorker(call, started) ==
  [call EXCEPT !.spawns = @ + 1, !.startedAt = now,
               !.mode = WorkerMode(call.kind),
               !.proc = IF started THEN "live" ELSE "failed"]

\* python.kill('SIGTERM')
Kill(call) == [call EXCEPT !.proc = IF @ = "live" THEN "killed" ELSE @]

FileExists(n) == \E f \in files : f.name = n
\* fs.unlinkSync(actionsFile)
UnlinkNothing(n) == files
Unlink(n) == {f \in files : f.name # n}
\* fs.writeFileSync(actionsFile, JSON.stringify(approvedActions, null, 2));
\* by records which call wrote the file (the file system does not)
WriteFile(n, a, i) ==
  Unlink(n) \cup {[name |-> n, content |-> Stringify(a), by |-> i]}

\* nothing of the call in slot i is left in the server: the response is sent
\* and no event of its worker is outstanding
Free(i) ==
  \/ calls[i].kind = "idle"
  \/ calls[i].outcome # "pending" /\ calls[i].proc \in {"none", "closed"}

\* the lowest free slot takes the next request
NextFree(i) ==
  /\ Free(i)
  /\ \A j \in Calls : j < i => ~Free(j)

\* an 'error' event queued with process.nextTick runs before any other event
NoPendingTick == \A j \in Calls : calls[j].proc # "failed"

Serving == ~crashed /\ NoPendingTick

\* the artifact store after executeApprovedActions has run its checks: the
\* artifact is written only when every check has passed
StagedFilesEarly(v, c, a, i) == WriteFile(actionsFile(c, now), a, i)
StagedFiles(v, c, a, i) ==
  IF v = "ok" THEN WriteFile(actionsFile(c, now), a, i) ELSE files

\* ----------------------------------------------------------- actions
\* POST /execute -> analyzeTask
Analyze(i, t, c) ==
  /\ Serving /\ NextFree(i)
  /\ now + timeoutMs <= MaxNow
  /\ LET v == AnalyzeVerdict(t, c)
         r == Received("analyze", t, c, Undefined)
     IN IF v # "ok"
        THEN calls' = [calls EXCEPT ![i] = Settle(r, v)]
        ELSE \E started \in BOOLEAN :
               calls' = [calls EXCEPT ![i] =
                  SpawnWorker(IF rev = "V1" THEN r ELSE ArmTimer(r), started)]
  /\ UNCHANGED <<browsing, isolating>>
  /\ UNCHANGED <<rev, registry, proposed, apiToken, scriptExists,
                 now, files, crashed>>
  /\ UNCHANGED <<stdio, closing, staging>>

\* POST /execute-approved -> executeApprovedActions
ExecuteApproved(i, t, c, a) ==
  /\ Serving /\ NextFree(i)
  /\ now + timeoutMs <= MaxNow
  /\ LET v == ExecuteVerdict(t, c, a)
         r == Received("execute", t, c, a)
     IN IF v # "ok"
        THEN /\ calls' = [calls EXCEPT ![i] = Settle(r, v)]
             /\ files' = StagedFiles(v, c, a, i)
        ELSE /\ files' = StagedFiles(v, c, a, i)
             /\ \E started \in BOOLEAN :
                  calls' = [calls EXCEPT ![i] =
                     SpawnWorker([r EXCEPT !.artifact = actionsFile(c, now)], started)]
  /\ UNCHANGED <<browsing, isolating>>
  /\ UNCHANGED <<rev, registry, proposed, apiToken, scriptExists,
                 now, crashed>>
  /\ UNCHANGED <<stdio, closing, staging>>

\* what the 'close' handler of analyzeTask settles the promise with
AnalyzeCloseOutcomeOutputFirst(code, out) ==
  IF out = "valid" THEN "Success"
  ELSE IF code # "0" THEN "WorkerExit"
  ELSE IF rev = "P2" /\ out = "keywords" THEN "Degraded"
  ELSE "Extraction"
AnalyzeCloseOutcome(code, out) ==
  IF code = "0"
  THEN IF out = "valid" \/ rev = "V1" THEN "Success"
       ELSE IF rev = "P2" /\ out = "keywords" THEN "Degraded"
       ELSE "Extraction"
  ELSE "WorkerExit"

\* what the 'close' handler of executeApprovedActions settles the promise with
ExecuteCloseOutcome(code, out) ==
  IF code = "0"
  THEN IF rev = "V3" /\ out = "badjson" THEN "Extraction" ELSE "Success"
  ELSE "WorkerExit"

OutKinds == {"valid", "badjson", "keywords", "nomatch"}
\* the exit code 'close' reports: null after a signal, the negative errno
\* after a failed spawn
ExitCodes(p) == IF p = "errored" THEN {"ENOENT"} ELSE {"0", "1", "null"}

\* the timer callback of analyzeTask
TimeoutFire(i) ==
  /\ Serving
  /\ calls[i].timer = "pending"
  /\ now >= calls[i].startedAt + timeoutMs
  /\ calls' = [calls EXCEPT ![i] =
        Settle([Kill(calls[i]) EXCEPT !.timer = "fired"], "Timeout")]
  /\ UNCHANGED <<browsing, isolating>>
  /\ UNCHANGED <<rev, registry, proposed, apiToken, scriptExists,
                 now, files, crashed>>
  /\ UNCHANGED <<stdio, closing, staging>>

\* python.on('error', ...): registered by analyzeTask only; without a listener
\* the 'error' event is thrown and ends the server process
SpawnError(i) ==
  /\ ~crashed
  /\ calls[i].proc = "failed"
  /\ IF calls[i].kind = "analyze" /\ rev # "V1"
     THEN /\ calls' = [calls EXCEPT ![i] =
                Settle([ClearTimeout(calls[i]) EXCEPT !.proc = "errored"],
                       "SpawnFailure")]
          /\ crashed' = crashed
     ELSE /\ calls' = [calls EXCEPT ![i].proc = "errored"]
          /\ crashed' = TRUE
  /\ UNCHANGED <<browsing, isolating>>
  /\ UNCHANGED <<rev, registry, proposed, apiToken, scriptExists,
                 now, files>>
  /\ UNCHANGED <<stdio, closing, staging>>

\* which buffer a 'close' handler reads: with code === 0 the extraction runs
\* on output (stdout), otherwise the error message is built from error
\* (stderr); neither handler asks whether the promise has settled already
ParsedBuffer(code) == IF code = "0" THEN "stdout" ELSE "stderr"

\* the 'close' handler of analyzeTask: clearTimeout, then resolve or reject
onAnalyzeCloseRetry(call, code, out) ==
  IF code = "0"
  THEN Settle([ClearTimeout(call) EXCEPT !.proc = "closed", !.exitCode = code,
                                         !.parsed = ParsedBuffer(code)],
              AnalyzeCloseOutcome(code, out))
  ELSE SpawnWorker(ArmTimer([call EXCEPT !.exitCode = code]), TRUE)
onAnalyzeClose(call, code, out) ==
  Settle([ClearTimeout(call) EXCEPT !.proc = "closed", !.exitCode = code,
                                    !.parsed = ParsedBuffer(code)],
         AnalyzeCloseOutcome(code, out))

\* python.on('close', ...) of analyzeTask
AnalyzeClose(i, code, out) ==
  /\ Serving
  /\ calls[i].kind = "analyze"
  /\ calls[i].proc \in {"live", "killed", "errored"}
  /\ code \in ExitCodes(calls[i].proc)
  /\ calls' = [calls EXCEPT ![i] = onAnalyzeClose(calls[i], code, out)]
  /\ UNCHANGED <<browsing, isolating>>
  /\ UNCHANGED <<rev, registry, proposed, apiToken, scriptExists,
                 now, files, crashed>>
  /\ UNCHANGED <<stdio, closing, staging>>

\* python.on('close', ...) of executeApprovedActions: fs.unlinkSync first
\* (inside try/catch in P2; bare in V3, where a missing file throws out of
\* the handler and ends the server process)
ExecuteClose(i, code, out) ==
  /\ Serving
  /\ calls[i].kind = "execute"
  /\ calls[i].proc \in {"live", "killed", "errored"}
  /\ code \in ExitCodes(calls[i].proc)
  /\ LET closed == [calls[i] EXCEPT !.proc = "closed", !.exitCode = code]
     IN IF rev = "V3" /\ ~FileExists(calls[i].artifact)
        THEN /\ calls' = [calls EXCEPT ![i] = closed]
             /\ files' = files
             /\ crashed' = TRUE
        ELSE /\ calls' = [calls EXCEPT ![i] =
                   Settle([closed EXCEPT !.parsed = ParsedBuffer(code)],
                          ExecuteCloseOutcome(code, out))]
             /\ files' = Unlink(calls[i].artifact)
             /\ crashed' = crashed
  /\ UNCHANGED <<browsing, isolating>>
  /\ UNCHANGED <<rev, registry, proposed, apiToken, scriptExists,
                 now>>
  /\ UNCHANGED <<stdio, closing, staging>>

\* time passes; a timer that is due runs before the clock moves on
Tick ==
  /\ Serving
  /\ now + timeoutMs <= MaxNow
  /\ \A j \in Calls :
       calls[j].timer = "pending" => now < calls[j].startedAt + timeoutMs
  /\ now' = now + timeoutMs
  /\ UNCHANGED <<browsing, isolating>>
  /\ UNCHANGED <<rev, registry, proposed, apiToken, scriptExists,
                 calls, files, crashed>>
  /\ UNCHANGED <<stdio, closing, staging>>

Next ==
  \/ \E i \in Calls, t \in TaskIds, c \in CourseIds : Analyze(i, t, c)
  \/ \E i \in Calls, t \in TaskIds, c \in CourseIds, a \in ActionValues :
       ExecuteApproved(i, t, c, a)
  \/ \E i \in Calls : TimeoutFire(i)
  \/ \E i \in Calls : SpawnError(i)
  \/ \E i \in Calls, code \in {"0", "1", "null", "ENOENT"}, out \in OutKinds :
       AnalyzeClose(i, code, out)
  \/ \E i \in Calls, code \in {"0", "1", "null", "ENOENT"}, out \in OutKinds :
       ExecuteClose(i, code, out)
  \/ Tick

Spec == Init /\ [][Next]_vars

\* the same machine started in any of the three revisions
AllSpec == InitOf(AllRevisions) /\ [][Next]_vars

\* ------------------------------------------- the history of proposals
\* the actions an analysis that succeeded has handed to its caller for
\* approval (one ActionItem, "a1", per analysis)
Proposal(t, c, a) == [taskId |-> t, courseId |-> c, action |-> a]
Proposals(call) == {Proposal(call.taskId, call.courseId, "a1")}

\* AnalyzeClose, with the history variable proposed recording what the
\* caller was shown
AnalyzeCloseRecorded(i, code, out) ==
  /\ Serving
  /\ calls[i].kind = "analyze"
  /\ calls[i].proc \in {"live", "killed", "errored"}
  /\ code \in ExitCodes(calls[i].proc)
  /\ calls' = [calls EXCEPT ![i] = onAnalyzeClose(calls[i], code, out)]
  /\ proposed' = IF calls[i].outcome = "pending" /\ calls'[i].outcome = "Success"
                 THEN proposed \cup Proposals(calls[i])
                 ELSE proposed
  /\ UNCHANGED <<browsing, isolating>>
  /\ UNCHANGED <<rev, registry, apiToken, scriptExists, now, files, crashed>>
  /\ UNCHANGED <<stdio, closing, staging>>

HistoryNext ==
  \/ \E i \in Calls, t \in TaskIds, c \in CourseIds : Analyze(i, t, c)
  \/ \E i \in Calls, t \in TaskIds, c \in CourseIds, a \in ActionValues :
       ExecuteApproved(i, t, c, a)
  \/ \E i \in Calls : TimeoutFire(i)
  \/ \E i \in Calls : SpawnError(i)
  \/ \E i \in Calls, code \in {"0", "1", "null", "ENOENT"}, out \in OutKinds :
       AnalyzeCloseRecorded(i, code, out)
  \/ \E i \in Calls, code \in {"0", "1", "null", "ENOENT"}, out \in OutKinds :
       ExecuteClose(i, code, out)
  \/ Tick

\* Spec with the history variable
HistorySpec == Init /\ [][HistoryNext]_vars

\* ------------------------------------------------ one worker's stdout
ExtractInit ==
  /\ rev \in Revisions
  /\ apiToken = TRUE /\ scriptExists = TRUE
  /\ now = 0
  /\ calls = [i \in Calls |-> Idle]
  /\ files = {}
  /\ crashed = FALSE
  /\ registry = QA_TASKS
  /\ proposed = {}
  /\ NoBrowsing /\ NoIsolating
  /\ text \in Texts
  /\ chunk = <<>> /\ output = <<>> /\ result = NotParsed
  /\ NoClosing /\ NoStaging

\* python.stdout.on('data', ...): output += chunk
Overwrite(buffer, data) == data
Accumulate(buffer, data) == buffer \o data
StdoutData(n) ==
  /\ result = NotParsed
  /\ Len(output) + n <= Len(text)
  /\ chunk' = SubSeq(text, Len(output) + 1, Len(output) + n)
  /\ output' = Accumulate(output, chunk')
  /\ UNCHANGED <<browsing, isolating>>
  /\ UNCHANGED <<rev, registry, proposed, apiToken, scriptExists,
                 now, calls, files, crashed,
                 text, result, closing, staging>>

\* python.on('close', ...) with code === 0: emitted once stdout has ended
WorkerClose ==
  /\ result = NotParsed
  /\ Len(output) = Len(text)
  /\ result' = Extract(output)
  /\ UNCHANGED <<browsing, isolating>>
  /\ UNCHANGED <<rev, registry, proposed, apiToken, scriptExists,
                 now, calls, files, crashed,
                 text, chunk, output, closing, staging>>

ExtractNext ==
  \/ \E n \in 1..MaxLen : StdoutData(n)
  \/ WorkerClose

ExtractSpec == ExtractInit /\ [][ExtractNext]_vars

\* ------------------------------------------ what a 'close' handler answers
\* stderr as a sequence of lines, each one of the texts the handlers look
\* for or a traceback too long for any excerpt
MaxErr == 2
Traceback == "Traceback (most recent call last): ..."
NoModuleNamed == "No module named 'requests'"
ErrTokens ==
  {"ModuleNotFoundError", NoModuleNamed, "401", "Unauthorized", "403",
   "Forbidden", "404", "timeout", "ConnectionError", "ImportError", Traceback}
\* the number of characters of a line of stderr, its line end included
CharLen(tok) ==
  CASE tok = "ModuleNotFoundError" -> 20
    [] tok = NoModuleNamed -> 27
    [] tok \in {"401", "403", "404"} -> 4
    [] tok = "Unauthorized" -> 13
    [] tok = "Forbidden" -> 10
    [] tok = "timeout" -> 8
    [] tok = "ConnectionError" -> 16
    [] tok = "ImportError" -> 12
    [] tok = Traceback -> 5000
RECURSIVE TextLen(_)
TextLen(e) == IF e = <<>> THEN 0 ELSE CharLen(Head(e)) + TextLen(Tail(e))
\* the lengths of stdout tried: shorter than every excerpt, between the two
\* excerpts of P2, longer than both
StdoutLens == {20, 600, 2000}

\* error.includes(pattern)
Includes(e, tok) == \E i \in 1..Len(e) : e[i] = tok
\* the length of text.substring(0, limit) for a text of n characters
Substring(n, limit) == IF n < limit THEN n ELSE limit
\* the limits of the excerpts: raw_output and 'Raw output: ' of analyzeTask in
\* P2, raw_output of executeApprovedActions in V3, the stderr excerpts of P2
\* and V3
RawOutputLimit == 1000
RawExcerptLimit == 500
ExecuteRawLimit == 500
StderrLimitP2 == 200
StderrLimitV3 == 300
\* the name captured by /No module named '([^']+)'/
ModuleNameLen == 8

Answer(code, o, k, r, d, f) ==
  [code |-> code, outcome |-> o, class |-> k, raw |-> r, detail |-> d,
   flag |-> f]

\* analyzeTask, code === 0: what is resolved or rejected, and how much of
\* output goes into it
AnalyzeExtraction(code, out) ==
  LET o == AnalyzeCloseOutcome(code, out.kind)
  IN IF o = "Success" THEN Answer(code, o, "none", 0, 0, FALSE)
     ELSE IF o = "Degraded"
     THEN Answer(code, o, "none", Substring(out.len, RawOutputLimit), 0, TRUE)
     ELSE IF rev = "P2"
     THEN Answer(code, o, "none", Substring(out.len, RawExcerptLimit), 0, FALSE)
     ELSE IF out.kind = "badjson"
     THEN Answer(code, o, "none", 0, 0, FALSE)
     ELSE Answer(code, o, "none", out.len, 0, FALSE)

\* analyzeTask, code !== 0: the else-if chain over error
ErrorClass(e) ==
  IF Includes(e, "ModuleNotFoundError") THEN "MissingDependency"
  ELSE IF Includes(e, "401") \/ Includes(e, "Unauthorized")
  THEN "AuthenticationFailure"
  ELSE IF Includes(e, "403") \/ Includes(e, "Forbidden")
  THEN "PermissionDenied"
  ELSE IF Includes(e, "404") THEN "NotFound"
  ELSE IF rev = "P2" /\ (Includes(e, "timeout") \/ Includes(e, "ConnectionError"))
  THEN "NetworkTimeout"
  ELSE IF rev = "P2" /\ Includes(e, "ImportError") THEN "ImportFailure"
  ELSE "GenericWorkerError"
\* how much of error goes into errorMessage
ErrorDetail(e) ==
  LET k == ErrorClass(e)
  IN IF k = "MissingDependency"
     THEN IF Includes(e, NoModuleNamed) THEN ModuleNameLen ELSE 0
     ELSE IF k = "GenericWorkerError"
     THEN Substring(TextLen(e), IF rev = "P2" THEN StderrLimitP2 ELSE StderrLimitV3)
     ELSE 0
AnalyzeFailure(code, e) ==
  Answer(code, "WorkerExit", ErrorClass(e), 0, ErrorDetail(e), FALSE)

\* executeApprovedActions, code === 0
ExecuteExtraction(code, out) ==
  LET o == ExecuteCloseOutcome(code, out.kind)
  IN IF out.kind = "valid" \/ o # "Success"
     THEN Answer(code, o, "none", 0, 0, FALSE)
     ELSE IF rev = "P2" THEN Answer(code, o, "none", out.len, 0, FALSE)
     ELSE Answer(code, o, "none", Substring(out.len, ExecuteRawLimit), 0, FALSE)
\* executeApprovedActions, code !== 0: `Execution failed: ${error}`
ExecuteFailure(code, e) ==
  Answer(code, "WorkerExit", "none", 0, TextLen(e), FALSE)

\* the 'close' handler of h
onClose(h, code, out, e) ==
  IF h = "analyze"
  THEN IF code = "0" THEN AnalyzeExtraction(code, out) ELSE AnalyzeFailure(code, e)
  ELSE IF code = "0" THEN ExecuteExtraction(code, out) ELSE ExecuteFailure(code, e)

CloseInit ==
  /\ rev \in Revisions
  /\ apiToken = TRUE /\ scriptExists = TRUE
  /\ now = 0
  /\ calls = [i \in Calls |-> Idle]
  /\ files = {}
  /\ crashed = FALSE
  /\ registry = QA_TASKS
  /\ proposed = {}
  /\ NoBrowsing /\ NoIsolating
  /\ NoStdio /\ NoStaging
  /\ handler \in {"analyze", "execute"}
  /\ stdout \in [kind : OutKinds, len : StdoutLens]
  /\ error = <<>>
  /\ response = NotSettled

\* python.stderr.on('data', ...): error += data
StderrData(tok) ==
  /\ response = NotSettled
  /\ Len(error) < MaxErr
  /\ error' = Accumulate(error, <<tok>>)
  /\ UNCHANGED <<browsing, isolating>>
  /\ UNCHANGED <<rev, registry, proposed, apiToken, scriptExists,
                 now, calls, files, crashed, stdio, staging,
                 handler, stdout, response>>

\* python.on('close', ...)
Close(code) ==
  /\ response = NotSettled
  /\ response' = onClose(handler, code, stdout, error)
  /\ UNCHANGED <<browsing, isolating>>
  /\ UNCHANGED <<rev, registry, proposed, apiToken, scriptExists,
                 now, calls, files, crashed, stdio, staging,
                 handler, stdout, error>>

CloseNext ==
  \/ \E tok \in ErrTokens : StderrData(tok)
  \/ \E code \in {"0", "1", "null"} : Close(code)

CloseSpec == CloseInit /\ [][CloseNext]_vars

\* ------------------------------------------------- one staged batch
MaxBatch == 3
ActionItems == {"a1", "a2", "a3"}
Batches == UNION {[1..n -> ActionItems] : n \in 0..MaxBatch}

\* the worker's reading of the file its argument names: a JSON array gives
\* the sequence of its items
RECURSIVE ParseItems(_)
ParseItems(s) ==
  IF s = <<>> THEN <<>>
  ELSE IF Head(s) = "," THEN ParseItems(Tail(s))
  ELSE <<Head(s)>> \o ParseItems(Tail(s))
Parse(content) ==
  IF Len(content) >= 2 /\ Head(content) = "[" /\ content[Len(content)] = "]"
  THEN Arr(ParseItems(SubSeq(content, 2, Len(content) - 1)))
  ELSE NotArray

StageInit ==
  /\ rev \in Revisions
  /\ apiToken = TRUE /\ scriptExists = TRUE
  /\ now = 0
  /\ calls = [i \in Calls |-> Idle]
  /\ files = {}
  /\ crashed = FALSE
  /\ registry = QA_TASKS
  /\ proposed = {}
  /\ NoBrowsing /\ NoIsolating
  /\ NoStdio /\ NoClosing
  /\ approvedActions \in {Arr(b) : b \in Batches}
  /\ loaded = NotLoaded

\* executeApprovedActions up to the spawn: the batch is written to the
\* artifact when the checks of the request pass
Stage(t, c) ==
  /\ files = {} /\ loaded = NotLoaded
  /\ ExecuteVerdict(t, c, approvedActions) = "ok"
  /\ files' = StagedFiles("ok", c, approvedActions, 1)
  /\ UNCHANGED <<browsing, isolating>>
  /\ UNCHANGED <<rev, registry, proposed, apiToken, scriptExists,
                 now, calls, crashed, stdio, closing, staging>>

\* the worker opens the file named after '--execute-approved' /
\* '--execute-from-json' and decodes it
WorkerLoad ==
  /\ loaded = NotLoaded
  /\ \E f \in files : loaded' = Parse(f.content)
  /\ UNCHANGED <<browsing, isolating>>
  /\ UNCHANGED <<rev, registry, proposed, apiToken, scriptExists,
                 now, calls, files, crashed, stdio, closing, approvedActions>>

\* python.on('close', ...): fs.unlinkSync(actionsFile)
StageClose ==
  /\ loaded # NotLoaded
  /\ \E f \in files : files' = Unlink(f.name)
  /\ UNCHANGED <<browsing, isolating>>
  /\ UNCHANGED <<rev, registry, proposed, apiToken, scriptExists,
                 now, calls, crashed, stdio, closing, staging>>

StageNext ==
  \/ \E c \in CourseIds : Stage("find-duplicate-pages", c)
  \/ WorkerLoad
  \/ StageClose

StageSpec == StageInit /\ [][StageNext]_vars

\* ------------------------------------------------ overlapping calls
\* two calls of analyzeTask / executeApprovedActions in flight at once, each
\* with the variables its promise executor declares (let output = '',
\* let error = '', const timeout, const python) and the worker it spawned
MaxData == 2
IsoStdout == {"json", "noise"}

\* what the 'close' handler finds in a buffer of stdout chunks: the sentinel
\* line with its JSON document, or nothing it recognises
OutputOf(buffer) ==
  [kind |-> IF \E k \in 1..Len(buffer) : buffer[k] = "json"
            THEN "valid" ELSE "nomatch",
   len |-> 20 * Len(buffer)]

\* the listeners a call registers are attached to the python object it
\* spawned itself, and append to the buffers declared in its own executor
OwnsAny(i, j) == TRUE
Owns(i, j) == i = j

TimedOut == Answer("none", "Timeout", "none", 0, 0, FALSE)

IsoInit ==
  /\ rev \in Revisions
  /\ apiToken = TRUE /\ scriptExists = TRUE
  /\ now = 0
  /\ calls = [i \in Calls |-> Idle]
  /\ files = {}
  /\ crashed = FALSE
  /\ registry = QA_TASKS
  /\ proposed = {}
  /\ NoStdio /\ NoClosing /\ NoStaging
  /\ NoBrowsing /\ NoIsolating

\* new Promise(...): setTimeout (analyzeTask only), spawn, the two buffers
Invoke(i, h) ==
  /\ closures[i] = NoClosure /\ workers[i] = NoWorker
  /\ closures' = [closures EXCEPT ![i] =
        [kind |-> h, output |-> <<>>, error |-> <<>>,
         timeout |-> IF h = "analyze" THEN "pending" ELSE "none",
         outcome |-> NotSettled]]
  /\ workers' = [workers EXCEPT ![i].state = "live"]
  /\ UNCHANGED <<rev, registry, proposed, apiToken, scriptExists,
                 now, calls, files, crashed, stdio, closing, staging, browsing>>

\* worker j writes to its stdout: python.stdout.on('data', ...): output += chunk
IsoStdoutData(j, tok) ==
  /\ workers[j].state \in {"live", "killed"}
  /\ Len(workers[j].wrote) < MaxData
  /\ workers' = [workers EXCEPT ![j].wrote = Append(@, tok)]
  /\ closures' = [i \in Calls |->
        IF Owns(i, j) /\ closures[i] # NoClosure
        THEN [closures[i] EXCEPT !.output = Accumulate(@, <<tok>>)]
        ELSE closures[i]]
  /\ UNCHANGED <<rev, registry, proposed, apiToken, scriptExists,
                 now, calls, files, crashed, stdio, closing, staging, browsing>>

\* worker j writes to its stderr: python.stderr.on('data', ...): error += chunk
IsoStderrData(j, tok) ==
  /\ workers[j].state \in {"live", "killed"}
  /\ Len(workers[j].werr) < MaxData
  /\ workers' = [workers EXCEPT ![j].werr = Append(@, tok)]
  /\ closures' = [i \in Calls |->
        IF Owns(i, j) /\ closures[i] # NoClosure
        THEN [closures[i] EXCEPT !.error = Accumulate(@, <<tok>>)]
        ELSE closures[i]]
  /\ UNCHANGED <<rev, registry, proposed, apiToken, scriptExists,
                 now, calls, files, crashed, stdio, closing, staging, browsing>>

\* the timer callback of call i: python.kill('SIGTERM'); reject(...)
IsoTimeout(i) ==
  /\ closures[i].timeout = "pending"
  /\ closures' = [closures EXCEPT ![i] =
        [@ EXCEPT !.timeout = "fired",
                  !.outcome = IF @ = NotSettled THEN TimedOut ELSE @]]
  /\ workers' = [j \in Calls |->
        IF Owns(i, j) /\ workers[j].state = "live"
        THEN [workers[j] EXCEPT !.state = "killed"]
        ELSE workers[j]]
  /\ UNCHANGED <<rev, registry, proposed, apiToken, scriptExists,
                 now, calls, files, crashed, stdio, closing, staging, browsing>>

\* worker j ends: python.on('close', ...) of the call that spawned it:
\* clearTimeout(timeout), then resolve or reject from output, error and code
IsoClose(j, code) ==
  /\ workers[j].state \in {"live", "killed"}
  /\ workers[j].state = "live" => code # "null"
  /\ workers' = [workers EXCEPT ![j].state = "closed", ![j].code = code]
  /\ closures' = [i \in Calls |->
        IF Owns(i, j) /\ closures[i] # NoClosure
        THEN [closures[i] EXCEPT
                !.timeout = IF @ = "pending" THEN "cleared" ELSE @,
                !.outcome =
                   IF @ = NotSettled
                   THEN onClose(closures[i].kind, code,
                                OutputOf(closures[i].output), closures[i].error)
                   ELSE @]
        ELSE closures[i]]
  /\ UNCHANGED <<rev, registry, proposed, apiToken, scriptExists,
                 now, calls, files, crashed, stdio, closing, staging, browsing>>

IsoNext ==
  \/ \E i \in Calls, h \in {"analyze", "execute"} : Invoke(i, h)
  \/ \E j \in Calls, tok \in IsoStdout : IsoStdoutData(j, tok)
  \/ \E j \in Calls, tok \in {"401"} : IsoStderrData(j, tok)
  \/ \E i \in Calls : IsoTimeout(i)
  \/ \E j \in Calls, code \in {"0", "1", "null"} : IsoClose(j, code)

IsoSpec == IsoInit /\ [][IsoNext]_vars

\* ------------------------------------------------------ dashboard
\* the script of the page generateEnhancedQADashboard returns, driven by the
\* user's clicks and by the responses of POST /execute and /execute-approved
MaxList == 2
Cards ==
  IF rev = "P2" THEN {"find-duplicate-pages"}
  ELSE {"find-duplicate-pages", "validate-assignment-settings"}

\* the action at position k (index k - 1 in the page) of a list of the
\* worker's findings
Item(c, k) == [class |-> c, index |-> k]
Lists(c) ==
  {Undefined} \cup {Arr([k \in 1..n |-> Item(c, k)]) : n \in 0..MaxList}
\* the JSON document after the sentinel: findings.safe_actions,
\* findings.requires_manual_review, summary.safe_actions_found
WorkerDocs ==
  [safe : Lists("safe"), manual : Lists("manual"), found : 0..MaxList]

\* list || []
OrEmpty(v) == IF v.kind = "array" THEN v.items ELSE <<>>

\* analyzeTask of P2, strategy 1: the next_steps of the result
NextStepsFromSummary(w) ==
  [kind |-> "object",
   safe_actions_count |-> w.found,
   manual_review_count |-> Len(OrEmpty(w.manual)),
   can_proceed_with_safe_actions |-> w.found > 0]
NextSteps(w) ==
  [kind |-> "object",
   safe_actions_count |-> Len(OrEmpty(w.safe)),
   manual_review_count |-> Len(OrEmpty(w.manual)),
   can_proceed_with_safe_actions |-> Len(OrEmpty(w.safe)) > 0]

\* analyzeTask of P2, strategy 1: resolve({... safe_actions, ..., next_steps})
Strategy1(t, w) ==
  [task |-> t, via |-> "enhanced",
   safe_actions |-> Arr(OrEmpty(w.safe)),
   requires_manual_review |-> Arr(OrEmpty(w.manual)),
   next_steps |-> NextSteps(w)]
\* strategies 2 and 3 of P2: resolve({... findings: <document> ...})
Strategy2(t, w) ==
  [task |-> t, via |-> "fallback", safe_actions |-> Undefined,
   requires_manual_review |-> Undefined, next_steps |-> NoNextSteps]
\* V3: resolve(JSON.parse(jsonMatch[1])): the lists stay under findings
ParsedDocument(t, w) ==
  [task |-> t, via |-> "document", safe_actions |-> w.safe,
   requires_manual_review |-> w.manual, next_steps |-> NoNextSteps]
AnalysisResults(t, w) ==
  IF rev = "P2" THEN {Strategy1(t, w), Strategy2(t, w)}
  ELSE {ParsedDocument(t, w)}

\* Array.from(document.querySelectorAll('.<class>:checked')).map(checkbox =>
\*   list[parseInt(checkbox.dataset.actionIndex)]): the boxes in document
\* order, each giving the action at its own index
PickPrefix(list, checked) ==
  SubSeq(list, 1, Cardinality(checked \cap (1..Len(list))))
Pick(list, checked) ==
  LET S == SelectSeq([k \in 1..Len(list) |-> k], LAMBDA k : k \in checked)
  IN [j \in 1..Len(S) |-> list[S[j]]]

Overlay == dom.preview \/ dom.progress

DashInit ==
  /\ rev \in Revisions
  /\ apiToken = TRUE /\ scriptExists = TRUE
  /\ now = 0
  /\ calls = [i \in Calls |-> Idle]
  /\ files = {}
  /\ crashed = FALSE
  /\ registry = QA_TASKS
  /\ proposed = {}
  /\ NoStdio /\ NoClosing /\ NoStaging
  /\ NoBrowsing /\ NoIsolating

\* a click on a task card: startAnalysis(taskId) in P2, the card's click
\* listener in V3: currentTaskId = taskId and the preview opens
CardClick(t) ==
  /\ ~Overlay
  /\ t \in Cards
  /\ currentTaskId' = t
  /\ dom' = [dom EXCEPT !.preview = TRUE]
  /\ UNCHANGED <<currentAnalysisResult, sent>>
  /\ UNCHANGED <<rev, registry, proposed, apiToken, scriptExists,
                 now, calls, files, crashed, stdio, closing, staging, isolating>>

\* closePreview(): P2 also forgets the task
closePreview ==
  /\ dom.preview
  /\ dom' = [dom EXCEPT !.preview = FALSE]
  /\ currentTaskId' = IF rev = "P2" THEN Null ELSE currentTaskId
  /\ UNCHANGED <<currentAnalysisResult, sent>>
  /\ UNCHANGED <<rev, registry, proposed, apiToken, scriptExists,
                 now, calls, files, crashed, stdio, closing, staging, isolating>>

\* proceedWithAnalysis(): P2 keeps the task in taskToExecute, calls
\* closePreview() and then executeTask(taskToExecute); V3 calls closePreview()
\* and then startAnalysis(currentTaskId), which assigns currentTaskId again
proceedWithAnalysis ==
  /\ dom.preview
  /\ IF currentTaskId = Null
     THEN /\ dom' = IF rev = "P2" THEN dom ELSE [dom EXCEPT !.preview = FALSE]
          /\ currentTaskId' = currentTaskId
     ELSE /\ dom' = [dom EXCEPT !.preview = FALSE, !.progress = TRUE,
                                !.fetching = currentTaskId]
          /\ currentTaskId' = IF rev = "P2" THEN Null ELSE currentTaskId
  /\ UNCHANGED <<currentAnalysisResult, sent>>
  /\ UNCHANGED <<rev, registry, proposed, apiToken, scriptExists,
                 now, calls, files, crashed, stdio, closing, staging, isolating>>

\* the boxes a result is rendered with: one per listed action, the safe ones
\* checked, the manual-review ones not (P2 renders no boxes)
RenderedSafe(r) ==
  IF rev = "P2" THEN {} ELSE 1..Len(OrEmpty(r.safe_actions))
showResults(page, r) ==
  [page EXCEPT !.results = "analysis", !.safeChecks = RenderedSafe(r),
               !.manualChecks = {}]
showError(page) ==
  [page EXCEPT !.results = "error", !.safeChecks = {}, !.manualChecks = {}]
hideProgress(page) == [page EXCEPT !.progress = FALSE, !.fetching = Null]

\* the response of POST /execute: hideProgress(), then showResults(taskId,
\* data.result) or showError(data.error)
AnalysisResponse(success, w) ==
  /\ dom.fetching \in Cards
  /\ IF success
     THEN \E r \in AnalysisResults(dom.fetching, w) :
            /\ currentAnalysisResult' = r
            /\ dom' = showResults(hideProgress(dom), r)
     ELSE /\ currentAnalysisResult' = currentAnalysisResult
          /\ dom' = showError(hideProgress(dom))
  /\ UNCHANGED <<currentTaskId, sent>>
  /\ UNCHANGED <<rev, registry, proposed, apiToken, scriptExists,
                 now, calls, files, crashed, stdio, closing, staging, isolating>>

\* the user ticks or clears one box (V3)
Toggle(c, k) ==
  /\ ~Overlay /\ dom.results = "analysis" /\ rev # "P2"
  /\ IF c = "safe"
     THEN /\ k \in 1..Len(OrEmpty(currentAnalysisResult.safe_actions))
          /\ dom' = [dom EXCEPT !.safeChecks =
                       IF k \in @ THEN @ \ {k} ELSE @ \cup {k}]
     ELSE /\ k \in 1..Len(OrEmpty(currentAnalysisResult.requires_manual_review))
          /\ dom' = [dom EXCEPT !.manualChecks =
                       IF k \in @ THEN @ \ {k} ELSE @ \cup {k}]
  /\ UNCHANGED <<currentTaskId, currentAnalysisResult, sent>>
  /\ UNCHANGED <<rev, registry, proposed, apiToken, scriptExists,
                 now, calls, files, crashed, stdio, closing, staging, isolating>>

\* toggleAll(className, checked) (V3)
toggleAll(c, checked) ==
  /\ ~Overlay /\ dom.results = "analysis" /\ rev # "P2"
  /\ IF c = "safe"
     THEN /\ currentAnalysisResult.safe_actions.kind = "array"
          /\ Len(currentAnalysisResult.safe_actions.items) > 0
          /\ dom' = [dom EXCEPT !.safeChecks =
                IF checked
                THEN 1..Len(currentAnalysisResult.safe_actions.items) ELSE {}]
     ELSE /\ currentAnalysisResult.requires_manual_review.kind = "array"
          /\ Len(currentAnalysisResult.requires_manual_review.items) > 0
          /\ dom' = [dom EXCEPT !.manualChecks =
                IF checked
                THEN 1..Len(currentAnalysisResult.requires_manual_review.items)
                ELSE {}]
  /\ UNCHANGED <<currentTaskId, currentAnalysisResult, sent>>
  /\ UNCHANGED <<rev, registry, proposed, apiToken, scriptExists,
                 now, calls, files, crashed, stdio, closing, staging, isolating>>

\* fetch('/execute-approved', {... taskId: currentTaskId, approvedActions ...})
Request(batch, safeChecked, manualChecked) ==
  [taskId |-> currentTaskId, from |-> currentAnalysisResult.task,
   batch |-> batch, safeChecked |-> safeChecked, manualChecked |-> manualChecked]

\* executeSelectedActions() of V3
executeSelectedActions ==
  /\ ~Overlay /\ dom.results = "analysis" /\ rev # "P2"
  /\ LET safeActions ==
           Pick(OrEmpty(currentAnalysisResult.safe_actions), dom.safeChecks)
         manualActions ==
           Pick(OrEmpty(currentAnalysisResult.requires_manual_review),
                dom.manualChecks)
         allActions == safeActions \o manualActions
     IN IF Len(allActions) = 0
        THEN UNCHANGED <<dom, sent>>
        ELSE /\ dom' = [dom EXCEPT !.progress = TRUE,
                                   !.fetching = "execute-approved"]
             /\ sent' = Request(allActions, dom.safeChecks, dom.manualChecks)
  /\ UNCHANGED <<currentTaskId, currentAnalysisResult>>
  /\ UNCHANGED <<rev, registry, proposed, apiToken, scriptExists,
                 now, calls, files, crashed, stdio, closing, staging, isolating>>

\* executeSafeActions() of P2, behind the button rendered when
\* next_steps.can_proceed_with_safe_actions holds: every listed safe action is
\* sent once the user confirms
executeSafeActions(confirmed) ==
  /\ ~Overlay /\ dom.results = "analysis" /\ rev = "P2"
  /\ currentAnalysisResult.next_steps.can_proceed_with_safe_actions
  /\ IF currentAnalysisResult = NoResult
        \/ currentAnalysisResult.safe_actions.kind # "array"
     THEN /\ dom' = showError(dom)
          /\ sent' = sent
     ELSE IF confirmed
     THEN /\ dom' = [dom EXCEPT !.progress = TRUE,
                                !.fetching = "execute-approved"]
          /\ sent' = Request(currentAnalysisResult.safe_actions.items,
                             1..Len(currentAnalysisResult.safe_actions.items), {})
     ELSE UNCHANGED <<dom, sent>>
  /\ UNCHANGED <<currentTaskId, currentAnalysisResult>>
  /\ UNCHANGED <<rev, registry, proposed, apiToken, scriptExists,
                 now, calls, files, crashed, stdio, closing, staging, isolating>>

\* the response of POST /execute-approved: hideProgress(), then
\* showExecutionResults (an alert in P2, the execution panel in V3) or
\* showError
ExecutionResponse(success) ==
  /\ dom.fetching = "execute-approved"
  /\ dom' = IF ~success THEN showError(hideProgress(dom))
            ELSE IF rev = "P2" THEN hideProgress(dom)
            ELSE [hideProgress(dom) EXCEPT !.results = "execution",
                                           !.safeChecks = {}, !.manualChecks = {}]
  /\ sent' = NoRequest
  /\ UNCHANGED <<currentTaskId, currentAnalysisResult>>
  /\ UNCHANGED <<rev, registry, proposed, apiToken, scriptExists,
                 now, calls, files, crashed, stdio, closing, staging, isolating>>

\* returnToTasks() of V3, a button of the execution panel
returnToTasks ==
  /\ ~Overlay /\ dom.results = "execution" /\ rev # "P2"
  /\ currentAnalysisResult' = NoResult
  /\ currentTaskId' = Null
  /\ dom' = [dom EXCEPT !.results = "hidden"]
  /\ UNCHANGED sent
  /\ UNCHANGED <<rev, registry, proposed, apiToken, scriptExists,
                 now, calls, files, crashed, stdio, closing, staging, isolating>>

\* runNewAnalysis() of V3, a button of the execution panel:
\* startAnalysis(currentTaskId)
runNewAnalysis ==
  /\ ~Overlay /\ dom.results = "execution" /\ rev # "P2"
  /\ dom' = [dom EXCEPT !.results = "hidden", !.progress = TRUE,
                        !.fetching = currentTaskId]
  /\ UNCHANGED <<currentTaskId, currentAnalysisResult, sent>>
  /\ UNCHANGED <<rev, registry, proposed, apiToken, scriptExists,
                 now, calls, files, crashed, stdio, closing, staging, isolating>>

DashNext ==
  \/ \E t \in Cards : CardClick(t)
  \/ closePreview
  \/ proceedWithAnalysis
  \/ \E success \in BOOLEAN, w \in WorkerDocs : AnalysisResponse(success, w)
  \/ \E c \in {"safe", "manual"}, k \in 1..MaxList : Toggle(c, k)
  \/ \E c \in {"safe", "manual"}, checked \in BOOLEAN : toggleAll(c, checked)
  \/ executeSelectedActions
  \/ \E confirmed \in BOOLEAN : executeSafeActions(confirmed)
  \/ \E success \in BOOLEAN : ExecutionResponse(success)
  \/ returnToTasks
  \/ runNewAnalysis

DashSpec == DashInit /\ [][DashNext]_vars

\* the scheduling the event loop guarantees: time passes however many
\* requests arrive in between, a due timer runs, a queued 'error' event is
\* delivered. Nothing makes a worker exit.
FairSpec ==
  /\ Spec
  /\ SF_vars(Tick)
  /\ \A i \in Calls : SF_vars(TimeoutFire(i)) /\ WF_vars(SpawnError(i))

\* ------------------------------------------------------------ claims
Started(i) == calls[i].kind # "idle"
Staged(i) == calls[i].kind = "execute" /\ calls[i].artifact # NoFile
\* the worker of call i has ended: it exited, or it could not be started
WorkerEnded(i) == calls[i].proc \in {"errored", "closed"}
Reported(i) == calls[i].outcome \notin {"none", "pending"}
OwnArtifactExists(i) ==
  \E f \in files : f.name = calls[i].artifact /\ f.by = i
\* a request nothing is wrong with: registered task, courseId present, and,
\* for executeApproved, a non-empty array of approved actions
WellFormed(i) ==
  /\ calls[i].taskId \in QA_TASKS /\ calls[i].courseId # Missing
  /\ calls[i].kind = "execute" =>
       calls[i].actions.kind = "array" /\ Len(calls[i].actions.items) > 0
ValidationErrors ==
  {"MissingTaskId", "MissingCourseId", "MissingParams", "MissingCredential",
   "UnknownTask"}

\* C1: once an executeApproved call that staged an artifact has ended (its
\* worker exited 0 or nonzero, could not be spawned, or timed out) and the
\* outcome is reported, the artifact it staged no longer exists.
C1_ArtifactGoneAfterOutcome ==
  \A i \in Calls :
    Staged(i) /\ WellFormed(i) /\ (Reported(i) \/ WorkerEnded(i))
      => ~OwnArtifactExists(i)

\* C2: any two executeApproved calls that staged an artifact staged it under
\* different names, also when they overlap and carry the same courseId.
C2_ArtifactNamesDistinct ==
  \A i, j \in Calls :
    i # j /\ Staged(i) /\ Staged(j) /\ WellFormed(i) /\ WellFormed(j)
      => calls[i].artifact # calls[j].artifact

\* C3: in analyze and in execute mode alike, a worker that has not exited by
\* its deadline (spawn time + timeoutMs) has been sent the termination signal
\* and its call has resolved with the timeout error.
C3_TimeoutEnforced ==
  \A i \in Calls :
    (/\ calls[i].spawns > 0 /\ WellFormed(i)
     /\ now > calls[i].startedAt + timeoutMs)
      => \/ WorkerEnded(i)
         \/ calls[i].proc = "killed" /\ calls[i].outcome = "Timeout"

\* C4: every analyze and every executeApproved call eventually returns an
\* outcome to its caller, whatever its worker does.
C4_EveryCallReturns ==
  \A i \in Calls :
    (calls[i].outcome = "pending" /\ WellFormed(i) /\ ~crashed)
      ~> (Reported(i) \/ crashed)

\* C5: an analyze request whose task id is not in the registry spawns no
\* worker and arms no timer, and analyzeTask, once the route has handed it
\* the request, fails with the unknown-task error.
C5_AnalyzeUnknownTask ==
  \A i \in Calls :
    calls[i].kind = "analyze" /\ calls[i].taskId \notin QA_TASKS
      => /\ calls[i].spawns = 0 /\ calls[i].proc = "none"
         /\ calls[i].timer = "none"
         /\ Reported(i) /\ calls[i].outcome \notin {"Success", "Degraded"}
         /\ AnalyzeRoute(calls[i].taskId, calls[i].courseId) = "ok"
              => calls[i].outcome = "UnknownTask"

C5_Witness ==
  \E i \in Calls :
    /\ calls[i].kind = "analyze" /\ calls[i].taskId = "no-such-task"
    /\ calls[i].outcome = "UnknownTask" /\ apiToken /\ scriptExists

\* C6: an executeApproved request whose task id is not in the registry stages
\* no artifact and spawns no worker, and executeApprovedActions, once the
\* route has handed it the request, rejects it at its first check.
C6_ExecuteUnknownTask ==
  \A i \in Calls :
    calls[i].kind = "execute" /\ calls[i].taskId \notin QA_TASKS
      => /\ calls[i].spawns = 0 /\ calls[i].proc = "none"
         /\ calls[i].artifact = NoFile
         /\ \A f \in files : f.by # i
         /\ Reported(i)
         /\ ExecuteRoute(calls[i].taskId, calls[i].courseId, calls[i].actions) = "ok"
              => calls[i].outcome = "UnknownTask"

C6_Witness ==
  \E i \in Calls :
    /\ calls[i].kind = "execute" /\ calls[i].taskId = "no-such-task"
    /\ calls[i].actions = Arr(<<"a1">>) /\ calls[i].courseId = "c1"
    /\ calls[i].outcome = "UnknownTask" /\ apiToken

\* C7: a request without courseId, and a request made while the credential
\* is absent, fails validation and never gets as far as spawning a worker,
\* in analyze and in executeApproved (stated for requests that are in order
\* otherwise: registered task, non-empty array of actions).
C7_NoSpawnWithoutCourseOrCredential ==
  \A i \in Calls :
    /\ Started(i) /\ calls[i].taskId \in QA_TASKS
    /\ calls[i].kind = "execute" =>
         calls[i].actions.kind = "array" /\ Len(calls[i].actions.items) > 0
    /\ calls[i].courseId = Missing \/ ~apiToken
    => /\ calls[i].spawns = 0 /\ calls[i].proc = "none"
       /\ calls[i].outcome \in ValidationErrors

\* C8: the step that answers a request with a validation error (missing task
\* id, missing course id, missing credential, unknown task) writes no
\* artifact, arms no timer, spawns no process and touches no other call.
C8_ValidationHasNoSideEffect ==
  [][\A i \in Calls :
       Free(i) /\ calls'[i] # calls[i] /\ calls'[i].outcome \in ValidationErrors
         => /\ files' = files
            /\ calls'[i].timer = "none"
            /\ calls'[i].spawns = 0 /\ calls'[i].proc = "none"
            /\ calls'[i].artifact = NoFile
            /\ \A j \in Calls : j # i => calls'[j] = calls[j]]_vars

C8_Witness ==
  \E i, j \in Calls :
    /\ calls[i].kind = "analyze" /\ calls[i].outcome = "MissingCourseId"
    /\ calls[j].kind = "execute" /\ calls[j].proc = "live"
    /\ OwnArtifactExists(j)

\* C9: executeApproved with an empty approvedActions array (task registered,
\* courseId and credential present) returns the trivial success, stages no
\* artifact and spawns no worker.
C9_EmptyBatchShortCircuits ==
  \A i \in Calls :
    /\ calls[i].kind = "execute" /\ calls[i].actions = Arr(<<>>)
    /\ calls[i].taskId \in QA_TASKS /\ calls[i].courseId # Missing /\ apiToken
    => /\ calls[i].outcome = "EmptySuccess"
       /\ calls[i].spawns = 0 /\ calls[i].artifact = NoFile

\* C10: a call spawns at most one process in its whole life, none when a
\* check rejects it or the empty batch short-circuits it, and exactly one
\* otherwise; a failed, timed-out or unspawnable worker is never restarted.
C10_ExactlyOneSpawn ==
  \A i \in Calls :
    /\ calls[i].spawns <= 1
    /\ calls[i].kind = "analyze" =>
         (calls[i].spawns = 1
            <=> AnalyzeVerdict(calls[i].taskId, calls[i].courseId) = "ok")
    /\ calls[i].kind = "execute" =>
         (calls[i].spawns = 1
            <=> ExecuteVerdict(calls[i].taskId, calls[i].courseId,
                               calls[i].actions) = "ok")

C10_Witness ==
  \E i, j \in Calls :
    /\ calls[i].kind = "analyze" /\ calls[i].spawns = 1
    /\ calls[i].proc = "closed" /\ calls[i].exitCode = "1"
    /\ calls[i].outcome = "WorkerExit"
    /\ calls[j].kind = "execute" /\ calls[j].spawns = 1
    /\ calls[j].proc = "closed" /\ calls[j].outcome = "WorkerExit"

TerminalOutcomes ==
  {"Success", "Degraded", "Extraction", "WorkerExit", "Timeout", "SpawnFailure"}
Succeeded(i) == calls[i].outcome \in {"Success", "Degraded", "EmptySuccess"}

C12_NoParseAfterTimeout ==
  \A i \in Calls : calls[i].outcome = "Timeout" => calls[i].parsed = "none"

\* C13: when a call has reported its outcome, its timer is not pending and
\* its child process has terminated (or was never started).
C13_ReleasedAtReport ==
  \A i \in Calls :
    Reported(i) => /\ calls[i].timer # "pending"
                   /\ calls[i].proc \in {"none", "errored", "closed"}

\* C14: the step in which an executeApproved call reports a worker-exit or an
\* extraction error leaves no file under the name of the artifact it staged.
C14_ArtifactDeletedBeforeError ==
  [][\A i \in Calls :
       /\ calls[i].kind = "execute" /\ calls[i].outcome = "pending"
       /\ calls'[i].outcome \in {"WorkerExit", "Extraction"}
       => ~\E f \in files' : f.name = calls[i].artifact]_vars

C14_Witness ==
  \E i \in Calls :
    /\ calls[i].kind = "execute" /\ Staged(i)
    /\ calls[i].exitCode = "1" /\ calls[i].outcome = "WorkerExit"
    /\ ~FileExists(calls[i].artifact)

\* C15: a worker that could not be started settles its call with the
\* spawn-failure error, in analyze and in executeApproved.
C15_SpawnFailureReported ==
  \A i \in Calls :
    calls[i].proc = "errored" \/ calls[i].exitCode = "ENOENT"
      => calls[i].outcome = "SpawnFailure"

\* C16: a 'close' handler reads stdout when the exit code is 0 and stderr
\* otherwise; a call whose worker exited nonzero never succeeds, and a call
\* whose worker exited 0 never ends in a worker-exit error.
C16_ExitCodeDecides ==
  \A i \in Calls :
    calls[i].proc = "closed" /\ calls[i].parsed # "none"
      => /\ calls[i].parsed = "stdout" <=> calls[i].exitCode = "0"
         /\ calls[i].exitCode # "0"
              => calls[i].outcome \in {"WorkerExit", "Timeout", "SpawnFailure"}
         /\ calls[i].exitCode = "0"
              => Succeeded(i) \/ calls[i].outcome \in {"Extraction", "Timeout"}

C16_Witness ==
  \E i, j \in Calls :
    /\ calls[i].kind = "analyze" /\ calls[i].proc = "closed"
    /\ calls[i].exitCode = "1" /\ calls[i].parsed = "stderr"
    /\ calls[i].outcome = "WorkerExit"
    /\ calls[j].kind = "execute" /\ calls[j].proc = "closed"
    /\ calls[j].exitCode = "0" /\ calls[j].parsed = "stdout"
    /\ calls[j].outcome = "Success"

Closed == result # NotParsed
\* the positions e at which a JSON document that starts right after position
\* p (white space skipped) ends
DocEnds(s, p) == {e \in p + 1..Len(s) : JsonValid(SubSeq(s, p + 1, e))}
\* the same, for a document that is all there is on the rest of p's line
LineDocEnds(s, p) ==
  {e \in DocEnds(s, p) :
     /\ e = Len(s) \/ s[e + 1] = Newline
     /\ \A i \in p + 1..e : s[i] = Newline => \A j \in p + 1..i : s[j] = Newline}
\* the end of the line position p is on
LineEnd(s, p) ==
  LET E == {i \in p..Len(s) : s[i] = Newline}
  IN IF E = {} THEN Len(s) ELSE Min(E)
\* the first balanced {...} span of s (<<>>: there is none)
Depth(s, a, i) ==
  Cardinality({j \in a..i : s[j] = "{"}) - Cardinality({j \in a..i : s[j] = "}"})
BalancedEnds(s, a) == {i \in a..Len(s) : Depth(s, a, i) = 0}
FirstBalanced(s) ==
  LET A == {a \in Positions(s, "{") : BalancedEnds(s, a) # {}}
  IN IF A = {} THEN <<>> ELSE SubSeq(s, Min(A), Min(BalancedEnds(s, Min(A))))

C18_PrimarySentinelWins ==
  rev = "P2" /\ Closed /\ Positions(text, Sentinel) # {}
    => \A e \in DocEnds(text, Min(Positions(text, Sentinel))) :
         result = Extracted("primary",
                            SubSeq(text, Min(Positions(text, Sentinel)) + 1, e))

\* C18 (amended): in qa-automation-lti.js, when what follows the first primary
\* sentinel, up to the end of the line, is a valid JSON object, that
\* object is the result of the primary strategy, whatever the rest of the
\* text contains.
C18_PrimaryLineWins ==
  rev = "P2" /\ Closed /\ Positions(text, Sentinel) # {}
    => \A e \in LineDocEnds(text, Min(Positions(text, Sentinel))) :
         result = Extracted("primary",
                            SubSeq(text, Min(Positions(text, Sentinel)) + 1, e))

C18_Witness ==
  /\ rev = "P2" /\ Closed /\ result.via = "primary"
  /\ Positions(text, Keyword) # {}
  /\ LineDocEnds(text, Min(Positions(text, Sentinel))) # {}

\* C19: when the text that follows the (only) primary sentinel on its line is
\* not valid JSON and a valid {...} blob stands on a line of its own, the
\* result is that blob, extracted by the best-effort strategy.
C19_FallsThroughToBlob ==
  Closed /\ Cardinality(Positions(text, Sentinel)) = 1
         /\ Positions(text, LegacySentinel) = {}
    => LET p == Min(Positions(text, Sentinel))
       IN \A a, b \in 1..Len(text) :
            /\ p < Len(text) /\ text[p + 1] # Newline
            /\ DocEnds(text, p) = {}
            /\ text[a] = "{" /\ text[b] = "}" /\ JsonValid(SubSeq(text, a, b))
            /\ a = 1 \/ text[a - 1] = Newline
            /\ b = Len(text) \/ text[b + 1] = Newline
            /\ a > LineEnd(text, p) \/ b < p
            => result = Extracted("extracted", SubSeq(text, a, b))

\* C20: in qa-automation-lti.js, when no sentinel is in the text and the
\* text holds several separate {...} spans, the span the best-effort strategy
\* parses is the first balanced one.
C20_FirstBalancedSpan ==
  /\ rev = "P2" /\ Closed
  /\ Positions(text, Sentinel) = {} /\ Positions(text, LegacySentinel) = {}
  /\ \A i \in 1..Len(text) : Depth(text, 1, i) \in {0, 1}
  /\ Depth(text, 1, Len(text)) = 0
  /\ Cardinality(Positions(text, "{")) >= 2
  /\ JsonValid(FirstBalanced(text))
  => result = Extracted("extracted", FirstBalanced(text))

\* ------------------------------------------------ claims C21 .. C30
Settled == response # NotSettled
Failed == Settled /\ response.outcome \notin {"Success", "Degraded"}

\* C21: an analyze worker that exits 0 without parseable JSON in its stdout
\* gives, when the text holds a completion keyword, a degraded result with
\* the flag set, and otherwise an extraction error; either way at most a
\* bounded excerpt of the raw text goes to the caller.
C21_UnparsedStdoutBounded ==
  (Settled /\ handler = "analyze" /\ response.code = "0" /\ stdout.kind # "valid")
    => /\ IF stdout.kind = "keywords"
          THEN response.outcome = "Degraded" /\ response.flag
          ELSE response.outcome = "Extraction"
       /\ response.raw <= RawOutputLimit

\* C22: an executeApproved worker that exits 0 without a parseable structured
\* result in its stdout ends in an extraction failure: the caller is not told
\* the execution succeeded.
C22_ExecuteUnparsedFails ==
  (Settled /\ handler = "execute" /\ response.code = "0" /\ stdout.kind # "valid")
    => response.outcome = "Extraction"

\* the first matching rule in the order the classifier is specified with
FirstRule(e) ==
  IF Includes(e, "ModuleNotFoundError") THEN "MissingDependency"
  ELSE IF Includes(e, "401") \/ Includes(e, "Unauthorized")
  THEN "AuthenticationFailure"
  ELSE IF Includes(e, "403") \/ Includes(e, "Forbidden")
  THEN "PermissionDenied"
  ELSE IF Includes(e, "404") THEN "NotFound"
  ELSE IF Includes(e, "timeout") \/ Includes(e, "ConnectionError")
  THEN "NetworkTimeout"
  ELSE "GenericWorkerError"

\* C23: for a nonzero exit of an analyze worker the error kind is the one of
\* the first rule that matches stderr, in the order MissingDependency,
\* AuthenticationFailure, PermissionDenied, NotFound, NetworkTimeout, and
\* GenericWorkerError when none matches.
C23_FirstMatchingRule ==
  (Settled /\ handler = "analyze" /\ response.code # "0")
    => response.class = FirstRule(error)

\* C24: whenever analyze or executeApproved fails, the error message holds at
\* most a bounded excerpt of stderr, however long stderr is.
C24_StderrBounded ==
  Failed => response.detail <= StderrLimitV3

\* C25: every worker spawned for an analyze request runs in analyze-only
\* mode, and a worker runs in a mode that changes the course only for an
\* executeApproved request, with the batch that request staged.
C25_AnalyzeNeverMutates ==
  \A i \in Calls :
    calls[i].proc \in {"live", "killed"} =>
      /\ calls[i].kind = "analyze" => calls[i].mode = "analyze-only"
      /\ calls[i].mode # "analyze-only"
           => calls[i].kind = "execute" /\ calls[i].artifact # NoFile

\* C26: every action in the batch of a running execute-mode worker was
\* proposed by an analysis of the same task and course that succeeded before.
C26_OnlyProposedActions ==
  \A i \in Calls :
    (/\ calls[i].kind = "execute"
     /\ calls[i].proc \in {"live", "killed"}
     /\ calls[i].actions.kind = "array")
      => \A k \in 1..Len(calls[i].actions.items) :
           Proposal(calls[i].taskId, calls[i].courseId,
                    calls[i].actions.items[k]) \in proposed

C28_ArtifactExclusivelyOwned ==
  \A i \in Calls :
    (Staged(i) /\ WellFormed(i) /\ calls[i].proc \in {"live", "killed"})
      => /\ OwnArtifactExists(i)
         /\ \A f \in files :
              f.name = calls[i].artifact => f.content = Stringify(calls[i].actions)
         /\ \A j \in Calls \ {i} :
              Staged(j) /\ calls[j].proc \in {"live", "killed", "failed", "errored"}
                => calls[j].artifact # calls[i].artifact

\* POST /execute: the body the route sends once analyzeTask has settled (or a
\* check of the route has thrown): res.json({success: true, ..., result}) or
\* res.status(500).json({success: false, error, debug: {...}})
NoDebug == [taskId |-> "", courseId |-> "", timestamp |-> "", errorType |-> ""]
RouteResponseNoDebug(call) ==
  [success |-> call.outcome \in {"Success", "Degraded"}, debug |-> NoDebug]
RouteResponse(call) ==
  IF call.outcome \in {"Success", "Degraded"}
  THEN [success |-> TRUE, debug |-> NoDebug]
  ELSE [success |-> FALSE,
        debug |-> [taskId |-> call.taskId, courseId |-> call.courseId,
                   timestamp |-> "new Date().toISOString()",
                   errorType |-> "Error"]]

C30_RegistryFixedAndTotal ==
  /\ registry = QA_TASKS
  /\ \A t \in TaskIds \cup QA_TASKS :
       /\ analyzeTaskGate(t) # "UnknownTask" <=> t \in registry
       /\ executeGate(t, Arr(<<"a1">>)) # "UnknownTask" <=> t \in registry
  /\ \A i \in Calls :
       Started(i) =>
         /\ calls[i].outcome = "UnknownTask" => calls[i].taskId \notin registry
         /\ calls[i].spawns > 0 => calls[i].taskId \in registry

C30_Witness ==
  \E i, j \in Calls :
    /\ calls[i].kind = "analyze" /\ calls[i].taskId \in registry
    /\ calls[i].spawns = 1
    /\ calls[j].kind = "execute" /\ calls[j].taskId \notin registry
    /\ calls[j].outcome = "UnknownTask"
    /\ calls[i].proc = "live"

\* ------------------------------------------------ claims C31 .. C39
\* C31: the termination signal is sent only by the step in which a call's
\* timer expires, and then the worker is still running and the deadline has
\* passed: never after the worker's close or error event was handled, and no
\* other step stops a running worker.
C31_SignalOnlyOnTimeout ==
  [][\A i \in Calls :
       /\ (calls'[i].timer = "fired" /\ calls[i].timer # "fired")
            => /\ calls[i].timer = "pending" /\ calls[i].proc = "live"
               /\ now >= calls[i].startedAt + timeoutMs
       /\ (calls'[i].proc = "killed" /\ calls[i].proc # "killed")
            => calls[i].timer = "pending" /\ calls'[i].timer = "fired"]_vars

C31_Witness ==
  \E i \in Calls :
    /\ calls[i].kind = "analyze" /\ calls[i].timer = "fired"
    /\ calls[i].proc = "killed" /\ calls[i].outcome = "Timeout"

\* C32: a request is never held back by a call already running for the same
\* course and task: while a well-formed call has a live worker and the server
\* takes requests, the same request again is accepted and starts a second
\* worker (an execute-mode one when it is the same approved batch).
C32_NoMutualExclusion ==
  \A i \in Calls : \A j \in Calls \ {i} :
    (/\ Serving /\ now + timeoutMs <= MaxNow
     /\ calls[i].proc = "live" /\ WellFormed(i)
     /\ NextFree(j))
      => ENABLED (/\ IF calls[i].kind = "analyze"
                     THEN Analyze(j, calls[i].taskId, calls[i].courseId)
                     ELSE ExecuteApproved(j, calls[i].taskId, calls[i].courseId,
                                          calls[i].actions)
                  /\ calls'[j].proc = "live"
                  /\ calls'[j].mode = calls[i].mode)

C32_Witness ==
  \E i, j \in Calls :
    /\ i # j
    /\ calls[i].kind = "execute" /\ calls[j].kind = "execute"
    /\ calls[i].proc = "live" /\ calls[j].proc = "live"
    /\ calls[i].mode = "execute" /\ calls[j].mode = "execute"
    /\ calls[i].taskId = calls[j].taskId
    /\ calls[i].courseId = calls[j].courseId /\ calls[i].courseId # Missing
    /\ calls[i].actions = calls[j].actions
    /\ calls[i].actions = Arr(<<"a1">>)

C34_TaskIdOfBatch ==
  sent # NoRequest => sent.taskId = sent.from

\* C38: a request the dashboard sends carries at least one action, and its
\* batch is the checked safe actions in page order followed by the checked
\* manual-review actions in page order, each the action at the index of its
\* box and none of an unchecked box.
C38_BatchIsSelection ==
  sent # NoRequest =>
    /\ sent.batch # <<>>
    /\ Len(sent.batch) = Cardinality(sent.safeChecked) + Cardinality(sent.manualChecked)
    /\ \A j \in 1..Len(sent.batch) :
         IF j <= Cardinality(sent.safeChecked)
         THEN /\ sent.batch[j].class = "safe"
              /\ sent.batch[j].index \in sent.safeChecked
         ELSE /\ sent.batch[j].class = "manual"
              /\ sent.batch[j].index \in sent.manualChecked
    /\ \A j, k \in 1..Len(sent.batch) :
         (j < k /\ sent.batch[j].class = sent.batch[k].class)
           => sent.batch[j].index < sent.batch[k].index

C38_Witness ==
  /\ rev = "V3"
  /\ sent.safeChecked = {2} /\ sent.manualChecked = {1}
  /\ sent.batch = <<Item("safe", 2), Item("manual", 1)>>
  /\ Len(OrEmpty(currentAnalysisResult.safe_actions)) = 2
  /\ Len(OrEmpty(currentAnalysisResult.requires_manual_review)) = 2

\* C39: in a result produced through the primary sentinel the counters of
\* next_steps agree with the lists returned beside them.
C39_CountersAgree ==
  currentAnalysisResult.via = "enhanced" =>
    /\ currentAnalysisResult.next_steps.safe_actions_count
         = Len(currentAnalysisResult.safe_actions.items)
    /\ currentAnalysisResult.next_steps.manual_review_count
         = Len(currentAnalysisResult.requires_manual_review.items)
    /\ currentAnalysisResult.next_steps.can_proceed_with_safe_actions
         <=> currentAnalysisResult.safe_actions.items # <<>>

C39_Witness ==
  /\ currentAnalysisResult.via = "enhanced"
  /\ Len(currentAnalysisResult.safe_actions.items) = 2
  /\ Len(currentAnalysisResult.requires_manual_review.items) = 1
  /\ currentAnalysisResult.next_steps.safe_actions_count = 2
  /\ currentAnalysisResult.next_steps.manual_review_count = 1
  /\ currentAnalysisResult.next_steps.can_proceed_with_safe_actions

\* C35: once the close handler of an executeApproved call has run, the call is
\* settled with the worker's outcome, also when the staged artifact was no
\* longer there to delete.
C35_CleanupFailureStillReports ==
  \A i \in Calls :
    (calls[i].kind = "execute" /\ calls[i].proc = "closed")
      => calls[i].outcome \in {"Success", "WorkerExit", "Extraction"}

\* C36: an executeApproved request whose approvedActions is missing or is no
\* array is answered with an error (the validation error, or the TypeError the
\* missing value raises) with no artifact staged and no worker spawned.
C36_BadBatchRejected ==
  \A i \in Calls :
    (calls[i].kind = "execute" /\ calls[i].actions.kind # "array")
      => /\ calls[i].outcome \in ValidationErrors \cup {"TypeError", "BadActions"}
         /\ ~Staged(i)
         /\ calls[i].spawns = 0

\* C37: an analyze request for a registered task whose script file does not
\* exist is rejected with the script-not-found error, with no timer armed and
\* no process spawned (stated for requests that are in order otherwise:
\* courseId and credential present).
C37_ScriptNotFoundBeforeTimer ==
  \A i \in Calls :
    (/\ calls[i].kind = "analyze" /\ calls[i].taskId \in QA_TASKS
     /\ calls[i].courseId # Missing /\ apiToken /\ ~scriptExists)
      => /\ calls[i].outcome = "ScriptNotFound"
         /\ calls[i].timer = "none"
         /\ calls[i].spawns = 0 /\ calls[i].proc = "none"

C37_Witness ==
  \E i \in Calls :
    /\ calls[i].kind = "analyze" /\ calls[i].taskId = "find-duplicate-pages"
    /\ calls[i].courseId = "c1" /\ apiToken /\ ~scriptExists
    /\ calls[i].outcome = "ScriptNotFound" /\ calls[i].timer = "none"
    /\ now > 0

====
